---------------------------- MODULE Spec2Model ----------------------------
(***************************************************************************)
(* A model of JLR-Mandelbrot (src/src/main.rs): the escape-time kernel     *)
(* calculate_escape_value, the spiral RowAndColumnIterator, the palette    *)
(* function color, and the main event loop that renders a frame pixel by   *)
(* pixel and polls the window for input.                                   *)
(*                                                                         *)
(* Float values.  The kernel is modelled on points with integer            *)
(* coordinates.  Every value the kernel computes from such a point is an   *)
(* integer of magnitude far below 2^53, so f64 arithmetic on it is exact   *)
(* and the model's integer arithmetic is the code's arithmetic.            *)
(***************************************************************************)
EXTENDS Integers, Sequences, FiniteSets, TLC

VARIABLES
    ev,         \* the locals of one call of calculate_escape_value
    sp,         \* a RowAndColumnIterator driven on its own (test_row_and_column_iterator)
    items,      \* the items that iterator has returned, in order
    color_in,   \* the argument of the latest call of color
    color_out,  \* what that call returned
    \* main():
    pc,             \* where main is: "start", "top", "find", "plot", "exit", "panic"
    info,           \* the WindowAndViewportInfo
    mouse_info,     \* the MouseInfo
    done,           \* the frame is complete
    user_input,     \* the UserInput polled last and not yet consumed
    image_buffer,   \* the pixel buffer, indexed 0 .. width*height-1
    iter,           \* row_and_column_iterator of the pass in progress
    count,          \* iterations of "for _ in 0..(width*height)" completed in this pass
    pixel,          \* (row, column) the inner loop of the pass broke with
    writes,         \* how often this pass has written each cell of the buffer
    zoom_ins,       \* ZoomIn inputs handled so far
    zoom_outs,      \* ZoomOut inputs handled so far
    calls,          \* calls of save_screenshot or print_coordinates made for
                    \* the input now in user_input
    \* the functions of the viewport and the MouseInfo, driven on their own:
    viewport,       \* a WindowAndViewportInfo built from drawn arguments
    center_xy,      \* convert_row_and_column_to_x_and_y at (height/2, width/2)
    samples         \* the button samples mouse_info has been given, in order

fnVars == <<ev, sp, items, color_in, color_out>>
mainVars == <<pc, info, mouse_info, done, user_input, image_buffer, iter, count,
              pixel, writes, zoom_ins, zoom_outs, calls>>
unitVars == <<viewport, center_xy, samples>>
vars == <<fnVars, mainVars, unitVars>>

(***************************************************************************)
(* Option<T>                                                               *)
(***************************************************************************)
None == [some |-> FALSE]
Some(v) == [some |-> TRUE, val |-> v]

Abs(n) == IF n < 0 THEN -n ELSE n

(***************************************************************************)
(* Bounds of the model                                                     *)
(***************************************************************************)
MaxCoord == 2        \* input points and Julia constants have coordinates in -MaxCoord..MaxCoord
MaxThreshold == 2    \* thresholds are None, 0, .., MaxThreshold
MaxBailout == 4      \* bailouts are None, 0, .., MaxBailout
MaxIterations == 40  \* a call is followed while its iteration counter is below MaxIterations
MaxRadius == 5       \* the free-running spiral is followed for (2*MaxRadius+1)^2 items
MaxStart == 1        \* the free-running spiral starts at a cell of (0..MaxStart)^2
MaxIter == 200       \* color is applied to None and to Some(0..MaxIter)

Coords == (-MaxCoord)..MaxCoord
Points == Coords \X Coords
JuliaArgs == {None} \cup {Some(p) : p \in Points}
ThresholdArgs == {None} \cup {Some(t) : t \in 0..MaxThreshold}
BailoutArgs == {None} \cup {Some(b) : b \in 0..MaxBailout}

(***************************************************************************)
(* color (main.rs 64-95)                                                   *)
(***************************************************************************)
NUM_COLORS_PER_LEG == 30
U8_MAX == 255

ColorPanic == [panicked |-> TRUE, rgb |-> <<0, 0, 0>>]
ColorOk(r, g, b) == [panicked |-> FALSE, rgb |-> <<r, g, b>>]

MANDELBROT_SET_COLOR == ColorOk(0, 0, 102)

\* A palette whose period is four legs long: the fourth leg has no colour.
color_FourLegs(i) ==
    IF ~i.some THEN MANDELBROT_SET_COLOR
    ELSE LET num_colors == NUM_COLORS_PER_LEG * 4
             j == i.val % num_colors
             remainder == j % NUM_COLORS_PER_LEG
             value1 == ((NUM_COLORS_PER_LEG - remainder) * 255) \div NUM_COLORS_PER_LEG
             value2 == (remainder * 255) \div NUM_COLORS_PER_LEG
             leg == j \div NUM_COLORS_PER_LEG
         IN  IF value1 > U8_MAX \/ value2 > U8_MAX THEN ColorPanic
             ELSE CASE leg = 0 -> ColorOk(value1, value2, 0)
                    [] leg = 1 -> ColorOk(0, value1, value2)
                    [] leg = 2 -> ColorOk(value2, 0, value1)
                    [] OTHER -> ColorPanic

color(i) ==
    IF ~i.some THEN MANDELBROT_SET_COLOR
    ELSE LET num_colors == NUM_COLORS_PER_LEG * 3
             j == i.val % num_colors
             remainder == j % NUM_COLORS_PER_LEG
             value1 == ((NUM_COLORS_PER_LEG - remainder) * 255) \div NUM_COLORS_PER_LEG
             value2 == (remainder * 255) \div NUM_COLORS_PER_LEG
             leg == j \div NUM_COLORS_PER_LEG
         IN  \* try_into::<u8>().unwrap() panics on a value above 255
             IF value1 > U8_MAX \/ value2 > U8_MAX THEN ColorPanic
             ELSE CASE leg = 0 -> ColorOk(value1, value2, 0)
                    [] leg = 1 -> ColorOk(0, value1, value2)
                    [] leg = 2 -> ColorOk(value2, 0, value1)
                    [] OTHER -> ColorPanic

ColorArgs == {None} \cup {Some(i) : i \in 0..MaxIter}

\* test_color_function: one call of color on an argument of the bounded set
ColorCall ==
    /\ \E i \in ColorArgs :
          /\ color_in' = i
          /\ color_out' = color(i)
    /\ UNCHANGED <<ev, sp, items, mainVars, unitVars>>

(***************************************************************************)
(* RowAndColumnIterator (main.rs 109-173)                                  *)
(***************************************************************************)
RowAndColumnIterator_new(start_row, start_column) ==
    [started |-> FALSE, start_row |-> start_row, start_column |-> start_column,
     row |-> 0, column |-> 0, panicked |-> FALSE]

StepTo(r, c) == [panic |-> FALSE, row |-> r, column |-> c]
StepPanic(r, c) == [panic |-> TRUE, row |-> r, column |-> c]

\* The walk down the left edge of a ring goes up instead.
SpiralStep_LeftEdgeUp(row, column) ==
    IF <<row, column>> = <<0, 0>> THEN StepTo(0, 1)
    ELSE IF row = column THEN
        (IF column > 0 THEN StepTo(row, column + 1) ELSE StepTo(row + 1, column))
    ELSE IF row = -column THEN
        (IF column > 0 THEN StepTo(row, column - 1) ELSE StepTo(row, column + 1))
    ELSE IF column > 0 /\ column > Abs(row) THEN StepTo(row - 1, column)
    ELSE IF column < 0 /\ -column > Abs(row) THEN StepTo(row - 1, column)
    ELSE IF row > 0 /\ row > Abs(column) THEN StepTo(row, column + 1)
    ELSE IF row < 0 /\ -row > Abs(column) THEN StepTo(row, column - 1)
    ELSE StepPanic(row, column)

\* The anti-diagonal case handles only its upper-right corner.
SpiralStep_NoLowerLeftCorner(row, column) ==
    IF <<row, column>> = <<0, 0>> THEN StepTo(0, 1)
    ELSE IF row = column THEN
        (IF column > 0 THEN StepTo(row, column + 1) ELSE StepTo(row + 1, column))
    ELSE IF row = -column /\ column > 0 THEN StepTo(row, column - 1)
    ELSE IF column > 0 /\ column > Abs(row) THEN StepTo(row - 1, column)
    ELSE IF column < 0 /\ -column > Abs(row) THEN StepTo(row + 1, column)
    ELSE IF row > 0 /\ row > Abs(column) THEN StepTo(row, column + 1)
    ELSE IF row < 0 /\ -row > Abs(column) THEN StepTo(row, column - 1)
    ELSE StepPanic(row, column)

\* main.rs 144-168: the if / else-if chain of next()
SpiralStep(row, column) ==
    IF <<row, column>> = <<0, 0>> THEN StepTo(0, 1)                   \* Go right.
    ELSE IF row = column THEN
        (IF column > 0 THEN StepTo(row, column + 1)                   \* Go right.
         ELSE StepTo(row + 1, column))                                \* Go down.
    ELSE IF row = -column THEN
        (IF column > 0 THEN StepTo(row, column - 1)                   \* Go left.
         ELSE StepTo(row, column + 1))                                \* Go right.
    ELSE IF column > 0 /\ column > Abs(row) THEN StepTo(row - 1, column)   \* Go up.
    ELSE IF column < 0 /\ -column > Abs(row) THEN StepTo(row + 1, column)  \* Go down.
    ELSE IF row > 0 /\ row > Abs(column) THEN StepTo(row, column + 1)      \* Go right.
    ELSE IF row < 0 /\ -row > Abs(column) THEN StepTo(row, column - 1)     \* Go left.
    ELSE StepPanic(row, column)

\* main.rs 131-172: the iterator after one call of next()
IteratorNext(s) ==
    IF ~s.started THEN [s EXCEPT !.row = 0, !.column = 0, !.started = TRUE]
    ELSE LET t == SpiralStep(s.row, s.column)
         IN  [s EXCEPT !.row = t.row, !.column = t.column, !.panicked = t.panic]

\* main.rs 171: the item that call returns
IteratorItem(s) == <<s.row + s.start_row, s.column + s.start_column>>

MaxItems == (2 * MaxRadius + 1) * (2 * MaxRadius + 1)

\* test_row_and_column_iterator: one more call of next()
SpiralNext ==
    /\ ~sp.panicked
    /\ Len(items) < MaxItems
    /\ sp' = IteratorNext(sp)
    /\ items' = IF sp'.panicked THEN items ELSE Append(items, IteratorItem(sp'))
    /\ UNCHANGED <<ev, color_in, color_out, mainVars, unitVars>>

(***************************************************************************)
(* calculate_escape_value (main.rs 198-287)                                *)
(***************************************************************************)
\* main.rs 202-207: the locals on entry to the loop.  pc names the section of
\* the loop body to run next; via names the return statement that ended the
\* call; fast_updates counts the assignments to (x_fast, y_fast).
EscapeEntry(x, y, c, threshold, bailout) ==
    [x |-> x, y |-> y, mode |-> c, threshold_arg |-> threshold,
     c_x |-> IF c.some THEN c.val[1] ELSE x,
     c_y |-> IF c.some THEN c.val[2] ELSE y,
     threshold |-> IF threshold.some THEN threshold.val ELSE 0,
     bailout |-> bailout,
     iterations |-> 0,
     x_slow |-> x, y_slow |-> y,
     x_fast |-> x, y_fast |-> y,
     fast_updates |-> 0,
     pc |-> "fast1", ret |-> None, via |-> "none"]

Return(s, value, via) == [s EXCEPT !.pc = "returned", !.ret = value, !.via = via]

\* main.rs 220-228 (and 244-252, 265-273): have we encountered this point before?
CycleFound(s) ==
    IF s.threshold = 0
    THEN <<s.x_fast, s.y_fast>> = <<s.x_slow, s.y_slow>>
    ELSE Abs(s.x_fast - s.x_slow) <= s.threshold /\ Abs(s.y_fast - s.y_slow) <= s.threshold

\* The escape test looks at the fast point after its update.
FastAdvance_TestAfterUpdate(s, nextpc) ==
    LET nx == s.x_fast * s.x_fast - s.y_fast * s.y_fast + s.c_x
        ny == 2 * s.x_fast * s.y_fast + s.c_y
        moved == [s EXCEPT !.x_fast = nx, !.y_fast = ny, !.fast_updates = @ + 1]
    IN  IF nx * nx + ny * ny > 4 THEN Return(moved, Some(s.iterations), "escape")
        ELSE IF CycleFound(moved) THEN Return(moved, None, "cycle")
        ELSE LET counted == [moved EXCEPT !.iterations = @ + 1]
             IN  IF s.bailout.some /\ counted.iterations = s.bailout.val
                 THEN Return(counted, None, "bailout")
                 ELSE [counted EXCEPT !.pc = nextpc]

\* With a threshold, the fast point is compared with the slow one only after
\* the slow point has moved.
FastAdvance_CompareAfterSlowOnly(s, nextpc) ==
    LET x_squared == s.x_fast * s.x_fast
        y_squared == s.y_fast * s.y_fast
    IN  IF x_squared + y_squared > 4 THEN Return(s, Some(s.iterations), "escape")
        ELSE LET moved == [s EXCEPT !.x_fast = x_squared - y_squared + s.c_x,
                                    !.y_fast = 2 * s.x_fast * s.y_fast + s.c_y,
                                    !.fast_updates = @ + 1]
             IN  IF s.threshold = 0 /\ CycleFound(moved) THEN Return(moved, None, "cycle")
                 ELSE LET counted == [moved EXCEPT !.iterations = @ + 1]
                      IN  IF s.bailout.some /\ counted.iterations = s.bailout.val
                          THEN Return(counted, None, "bailout")
                          ELSE [counted EXCEPT !.pc = nextpc]

\* The counter is incremented inside the "no threshold" branch only.
FastAdvance_CountOnlyExact(s, nextpc) ==
    LET x_squared == s.x_fast * s.x_fast
        y_squared == s.y_fast * s.y_fast
    IN  IF x_squared + y_squared > 4 THEN Return(s, Some(s.iterations), "escape")
        ELSE LET moved == [s EXCEPT !.x_fast = x_squared - y_squared + s.c_x,
                                    !.y_fast = 2 * s.x_fast * s.y_fast + s.c_y,
                                    !.fast_updates = @ + 1]
             IN  IF CycleFound(moved) THEN Return(moved, None, "cycle")
                 ELSE LET counted == [moved EXCEPT
                                        !.iterations = IF s.threshold = 0 THEN @ + 1 ELSE @]
                      IN  IF s.bailout.some /\ counted.iterations = s.bailout.val
                          THEN Return(counted, None, "bailout")
                          ELSE [counted EXCEPT !.pc = nextpc]

\* main.rs 212-234 (first advance of the fast point) and 236-258 (second):
\* escape test on the current fast point, update, cycle test, count, bailout.
FastAdvance(s, nextpc) ==
    LET x_squared == s.x_fast * s.x_fast
        y_squared == s.y_fast * s.y_fast
    IN  IF x_squared + y_squared > 4 THEN Return(s, Some(s.iterations), "escape")
        ELSE LET difference_of_squares == x_squared - y_squared
                 double_the_product == 2 * s.x_fast * s.y_fast
                 moved == [s EXCEPT !.x_fast = difference_of_squares + s.c_x,
                                    !.y_fast = double_the_product + s.c_y,
                                    !.fast_updates = @ + 1]
             IN  IF CycleFound(moved) THEN Return(moved, None, "cycle")
                 ELSE LET counted == [moved EXCEPT !.iterations = @ + 1]
                      IN  IF s.bailout.some /\ counted.iterations = s.bailout.val
                          THEN Return(counted, None, "bailout")
                          ELSE [counted EXCEPT !.pc = nextpc]

\* The slow point is computed but never stored: it stays at the input point.
SlowAdvance_SlowNeverMoves(s) ==
    IF CycleFound(s) THEN Return(s, None, "cycle")
    ELSE [s EXCEPT !.pc = "fast1"]

\* The counter is incremented after the slow update as well.
SlowAdvance_CountsToo(s) ==
    LET x_squared == s.x_slow * s.x_slow
        y_squared == s.y_slow * s.y_slow
        moved == [s EXCEPT !.x_slow = x_squared - y_squared + s.c_x,
                           !.y_slow = 2 * s.x_slow * s.y_slow + s.c_y]
    IN  IF CycleFound(moved) THEN Return(moved, None, "cycle")
        ELSE [moved EXCEPT !.iterations = @ + 1, !.pc = "fast1"]

\* main.rs 260-279: advance the slow point, cycle test, continue
SlowAdvance(s) ==
    LET x_squared == s.x_slow * s.x_slow
        y_squared == s.y_slow * s.y_slow
        moved == [s EXCEPT !.x_slow = x_squared - y_squared + s.c_x,
                           !.y_slow = 2 * s.x_slow * s.y_slow + s.c_y]
    IN  IF CycleFound(moved) THEN Return(moved, None, "cycle")
        ELSE [moved EXCEPT !.pc = "fast1"]

\* One section of the loop body
EscapeStep(s) ==
    CASE s.pc = "fast1" -> FastAdvance(s, "fast2")
      [] s.pc = "fast2" -> FastAdvance(s, "slow")
      [] s.pc = "slow" -> SlowAdvance(s)
      [] OTHER -> s

\* The model follows a call while its counter is below MaxIterations
Followed(s) == s.pc # "returned" /\ s.iterations < MaxIterations

RECURSIVE EscapeRun(_)
EscapeRun(s) == IF Followed(s) THEN EscapeRun(EscapeStep(s)) ELSE s

\* The locals of a whole call at its return
calculate_escape_value(x, y, c, threshold, bailout) ==
    EscapeRun(EscapeEntry(x, y, c, threshold, bailout))

EscapeInputs ==
    {EscapeEntry(p[1], p[2], c, t, b) :
        p \in Points, c \in JuliaArgs, t \in ThresholdArgs, b \in BailoutArgs}

EvFast1 ==
    /\ ev.pc = "fast1" /\ Followed(ev)
    /\ ev' = FastAdvance(ev, "fast2")
    /\ UNCHANGED <<sp, items, color_in, color_out, mainVars, unitVars>>

EvFast2 ==
    /\ ev.pc = "fast2" /\ Followed(ev)
    /\ ev' = FastAdvance(ev, "slow")
    /\ UNCHANGED <<sp, items, color_in, color_out, mainVars, unitVars>>

EvSlow ==
    /\ ev.pc = "slow" /\ Followed(ev)
    /\ ev' = SlowAdvance(ev)
    /\ UNCHANGED <<sp, items, color_in, color_out, mainVars, unitVars>>

(***************************************************************************)
(* Float values of the viewport.  The viewport's numbers (1.725, its       *)
(* halves and doubles, pixel centres) are modelled as exact rationals      *)
(* <<numerator, denominator>> in lowest terms; the rounding of f64 is not  *)
(* modelled.                                                               *)
(***************************************************************************)
RECURSIVE GCD(_, _)
GCD(a, b) == IF b = 0 THEN a ELSE GCD(b, a % b)

Rat(n, d) ==
    LET sgn == IF d < 0 THEN -1 ELSE 1
        g == GCD(Abs(n), Abs(d))
    IN  <<(sgn * n) \div g, (sgn * d) \div g>>

F(k) == <<k, 1>>
FAdd(a, b) == Rat(a[1] * b[2] + b[1] * a[2], a[2] * b[2])
FSub(a, b) == Rat(a[1] * b[2] - b[1] * a[2], a[2] * b[2])
FMul(a, b) == Rat(a[1] * b[1], a[2] * b[2])
FDiv(a, b) == Rat(a[1] * b[2], a[2] * b[1])
FLe(a, b) == a[1] * b[2] <= b[1] * a[2]
FAbs(a) == <<Abs(a[1]), a[2]>>

(***************************************************************************)
(* WindowAndViewportInfo (main.rs 301-346)                                 *)
(***************************************************************************)
WindowAndViewportInfo_new(width, height, center_x, center_y, distance_from_center_to_edge, zoom_level) ==
    LET span == FMul(distance_from_center_to_edge, F(2))
        min_x == FSub(center_x, distance_from_center_to_edge)
        max_x == FAdd(center_x, distance_from_center_to_edge)
        min_y == FSub(center_y, distance_from_center_to_edge)
        max_y == FAdd(center_y, distance_from_center_to_edge)
        delta_x == FDiv(FSub(max_x, min_x), F(width))
        delta_y == FDiv(FSub(max_y, min_y), F(height))
    IN  [width |-> width, height |-> height,
         center_x |-> center_x, center_y |-> center_y,
         span |-> span,
         distance_from_center_to_edge |-> distance_from_center_to_edge,
         min_x |-> min_x, max_x |-> max_x, min_y |-> min_y, max_y |-> max_y,
         delta_x |-> delta_x, delta_y |-> delta_y,
         zoom_level |-> zoom_level]

\* The pixel's upper-left corner in place of its centre: no + 0.5.
convert_row_and_column_to_x_and_y_Corner(i, row, column) ==
    <<FAdd(i.min_x, FMul(i.delta_x, column)),
      FSub(i.max_y, FMul(i.delta_y, row))>>

\* main.rs 422-427
convert_row_and_column_to_x_and_y(i, row, column) ==
    <<FAdd(i.min_x, FMul(i.delta_x, FAdd(column, <<1, 2>>))),
      FSub(i.max_y, FMul(i.delta_y, FAdd(row, <<1, 2>>)))>>

\* The viewports the two functions are driven on
MaxWidth == 4     \* width and height in 1..MaxWidth
MaxCenter == 1    \* centre coordinates k/2 with |k| <= MaxCenter
MaxSpan == 3      \* half-spans n/4 with n in 1..MaxSpan, and 1.725

ViewportCenters == {Rat(k, 2) : k \in (-MaxCenter)..MaxCenter}
ViewportHalfSpans == {Rat(n, 4) : n \in 1..MaxSpan} \cup {Rat(69, 40)}

\* WindowAndViewportInfo::new on drawn arguments
ViewportNew ==
    /\ ~viewport.some
    /\ \E width \in 1..MaxWidth, height \in 1..MaxWidth,
          center_x \in ViewportCenters, center_y \in ViewportCenters,
          distance_from_center_to_edge \in ViewportHalfSpans :
          viewport' = Some(WindowAndViewportInfo_new(
                               width, height, center_x, center_y,
                               distance_from_center_to_edge, 0))
    /\ UNCHANGED <<center_xy, samples, fnVars, mainVars>>

\* convert_row_and_column_to_x_and_y at the cell (height/2, width/2), as
\* main.rs 845 computes the halves (integer division)
ViewportCenterCell ==
    /\ viewport.some /\ ~center_xy.some
    /\ LET i == viewport.val
           half_width == i.width \div 2
           half_height == i.height \div 2
       IN  center_xy' = Some(convert_row_and_column_to_x_and_y(
                                 i, F(half_height), F(half_width)))
    /\ UNCHANGED <<viewport, samples, fnVars, mainVars>>

(***************************************************************************)
(* MouseInfo (main.rs 365-417): [0] is the sample before the last, [1] the *)
(* last; here indices 1 and 2.                                             *)
(***************************************************************************)
MouseInfo_new ==
    [left_mouse_button_pressed |-> <<FALSE, FALSE>>,
     right_mouse_button_pressed |-> <<FALSE, FALSE>>]

\* The new sample overwrites the last one and the history slot keeps its value.
set_mouse_buttons_pressed_NoShift(m, left, right) ==
    [left_mouse_button_pressed |-> <<m.left_mouse_button_pressed[1], left>>,
     right_mouse_button_pressed |-> <<m.right_mouse_button_pressed[1], right>>]

\* main.rs 378-392
set_mouse_buttons_pressed(m, left, right) ==
    [left_mouse_button_pressed |-> <<m.left_mouse_button_pressed[2], left>>,
     right_mouse_button_pressed |-> <<m.right_mouse_button_pressed[2], right>>]

\* main.rs 394-408
left_mouse_button_currently_pressed(m) == m.left_mouse_button_pressed[2]

right_mouse_button_currently_pressed(m) == m.right_mouse_button_pressed[2]

left_mouse_button_just_pressed(m) ==
    ~m.left_mouse_button_pressed[1] /\ m.left_mouse_button_pressed[2]

right_mouse_button_just_pressed(m) ==
    ~m.right_mouse_button_pressed[1] /\ m.right_mouse_button_pressed[2]

left_mouse_button_just_released(m) ==
    m.left_mouse_button_pressed[1] /\ ~m.left_mouse_button_pressed[2]

right_mouse_button_just_released(m) ==
    m.right_mouse_button_pressed[1] /\ ~m.right_mouse_button_pressed[2]

MaxSamples == 4   \* the MouseInfo driven on its own is given at most MaxSamples samples

\* main.rs 525-527: one more sample of the two buttons
MouseSample ==
    /\ Len(samples) < MaxSamples
    /\ \E left \in BOOLEAN, right \in BOOLEAN :
          /\ mouse_info' = set_mouse_buttons_pressed(mouse_info, left, right)
          /\ samples' = Append(samples, <<left, right>>)
    /\ UNCHANGED <<pc, info, done, user_input, image_buffer, iter, count, pixel,
                   writes, zoom_ins, zoom_outs, calls, viewport, center_xy, fnVars>>

(***************************************************************************)
(* UserInput and get_user_input (main.rs 509-547)                          *)
(***************************************************************************)
Nothing == [kind |-> "Nothing"]
Quit == [kind |-> "Quit"]
SaveScreenShot == [kind |-> "SaveScreenShot"]
ShowCoordinates == [kind |-> "ShowCoordinates"]
ZoomIn(x, y) == [kind |-> "ZoomIn", x |-> x, y |-> y]
ZoomOut(x, y) == [kind |-> "ZoomOut", x |-> x, y |-> y]

ZoomKinds == {"ZoomIn", "ZoomOut"}
PassiveKinds == {"Nothing", "SaveScreenShot", "ShowCoordinates"}

\* What the window reports at one poll: whether it is open, the keys that
\* are down, the keys that were released, the two mouse buttons and the cell
\* the mouse is over.  A sample holds at most one keyboard or close event.
MouseCells(i) == {<<i.height - 1, i.width - 1>>}

WindowEvents ==
    {[is_open |-> TRUE, keys_down |-> {}, keys_released |-> {}],
     [is_open |-> FALSE, keys_down |-> {}, keys_released |-> {}],
     [is_open |-> TRUE, keys_down |-> {"Escape"}, keys_released |-> {}],
     [is_open |-> TRUE, keys_down |-> {"Q"}, keys_released |-> {}],
     [is_open |-> TRUE, keys_down |-> {}, keys_released |-> {"S"}],
     [is_open |-> TRUE, keys_down |-> {}, keys_released |-> {"C"}]}

WindowSamples(i) ==
    {[is_open |-> e.is_open, keys_down |-> e.keys_down, keys_released |-> e.keys_released,
      left_down |-> l, right_down |-> r, mouse_pos |-> p] :
        e \in WindowEvents, l \in BOOLEAN, r \in BOOLEAN, p \in MouseCells(i)}

\* A right-button release returns the clicked point itself, not its reflection.
get_user_input_ZoomOutAtClick(window, i, m) ==
    LET m2 == set_mouse_buttons_pressed(m, window.left_down, window.right_down)
        row == F(window.mouse_pos[1])
        column == F(window.mouse_pos[2])
        xy == convert_row_and_column_to_x_and_y(i, row, column)
        input ==
            IF ~window.is_open \/ "Escape" \in window.keys_down \/ "Q" \in window.keys_down
            THEN Quit
            ELSE IF "S" \in window.keys_released THEN SaveScreenShot
            ELSE IF "C" \in window.keys_released THEN ShowCoordinates
            ELSE IF left_mouse_button_just_released(m2) THEN ZoomIn(xy[1], xy[2])
            ELSE IF right_mouse_button_just_released(m2) THEN ZoomOut(xy[1], xy[2])
            ELSE Nothing
    IN  [mouse_info |-> m2, input |-> input]

\* The MouseInfo after the poll, and the UserInput returned
get_user_input(window, i, m) ==
    LET m2 == set_mouse_buttons_pressed(m, window.left_down, window.right_down)
        row == F(window.mouse_pos[1])
        column == F(window.mouse_pos[2])
        xy == convert_row_and_column_to_x_and_y(i, row, column)
        input ==
            IF ~window.is_open \/ "Escape" \in window.keys_down \/ "Q" \in window.keys_down
            THEN Quit
            ELSE IF "S" \in window.keys_released THEN SaveScreenShot
            ELSE IF "C" \in window.keys_released THEN ShowCoordinates
            ELSE IF left_mouse_button_just_released(m2) THEN ZoomIn(xy[1], xy[2])
            ELSE IF right_mouse_button_just_released(m2)
                 THEN ZoomOut(FSub(FMul(F(2), i.center_x), xy[1]),
                              FSub(FMul(F(2), i.center_y), xy[2]))
            ELSE Nothing
    IN  [mouse_info |-> m2, input |-> input]

(***************************************************************************)
(* main (main.rs 649-906)                                                  *)
(***************************************************************************)
MaxSize == 2     \* --size=NUMBER with NUMBER in 1..MaxSize
MaxZooms == 2    \* the window reports at most MaxZooms zooming clicks

\* main is modelled as started without --julia: c = None for the whole run,
\* and the original centre is (-0.5, 0.0).
ORIGINAL_CENTER == <<Rat(-1, 2), F(0)>>                  \* (-0.5, 0.0)
ORIGINAL_DISTANCE_FROM_CENTER_TO_EDGE == Rat(69, 40)     \* 1.725

\* vec![0u32; width * height]
Blank == [blank |-> TRUE]

\* The value main stores for a pixel, rgb_to_u32(color(calculate_escape_value(
\* x, y, c, Some(threshold), bailout))): c and bailout never change during a
\* run, so the value is a function of (x, y, threshold), and the model keeps
\* these arguments in the cell in place of the value.
PixelColor(x, y, threshold) == [blank |-> FALSE, x |-> x, y |-> y, threshold |-> threshold]

Cells(i) == 0..(i.width * i.height - 1)

\* The two upper bounds are tested with > in place of >=.
InWindow_UpperBoundsOffByOne(item, i) ==
    IF item[1] < 0 THEN FALSE
    ELSE IF item[2] < 0 THEN FALSE
    ELSE IF item[1] > i.height THEN FALSE
    ELSE IF item[2] > i.width THEN FALSE
    ELSE TRUE

\* main.rs 858-868: is the coordinate in the window?
InWindow(item, i) ==
    IF item[1] < 0 THEN FALSE
    ELSE IF item[2] < 0 THEN FALSE
    ELSE IF item[1] >= i.height THEN FALSE
    ELSE IF item[2] >= i.width THEN FALSE
    ELSE TRUE

\* Only Quit leaves the for loop: a zoom input lets the pass go on.
AfterCheckpoint_ZoomGoesOn(input) ==
    CASE input.kind = "Quit" -> "break_main"
      [] OTHER -> "next_pixel"

\* main.rs 892-898: what the checkpoint does with the input it polled
AfterCheckpoint(input) ==
    CASE input.kind = "Nothing" -> "next_pixel"
      [] input.kind = "Quit" -> "break_main"
      [] input.kind = "SaveScreenShot" -> "next_pixel"
      [] input.kind = "ShowCoordinates" -> "next_pixel"
      [] OTHER -> "continue_main"

\* The window reports a zooming click only while fewer than MaxZooms were handled
WithinZoomBound(input) ==
    input.kind \in ZoomKinds => zoom_ins + zoom_outs < MaxZooms

\* main.rs 797-798 and 895-896: the inputs that are served by one call, of
\* save_screenshot or of print_coordinates
CallKinds == {"SaveScreenShot", "ShowCoordinates"}

\* main.rs 795-818 for an input that is not Quit or a zoom: the calls made
\* for the input once the match at the top of the loop has run
AfterTopMatch(input, made) == IF input.kind \in CallKinds THEN made + 1 ELSE made

\* main.rs 892-898: the calls made for an input once the match at the
\* checkpoint that polled it has run
AfterCheckpointMatch(input) == IF input.kind \in CallKinds THEN 1 ELSE 0

\* main.rs 790-791: the first poll, before the event loop
MainFirstPoll ==
    /\ pc = "start"
    /\ \E window \in WindowSamples(info) :
          LET r == get_user_input(window, info, mouse_info)
          IN  /\ WithinZoomBound(r.input)
              /\ user_input' = r.input
              /\ mouse_info' = r.mouse_info
    /\ pc' = "top"
    /\ calls' = 0
    /\ UNCHANGED <<info, done, image_buffer, iter, count, pixel, writes,
                   zoom_ins, zoom_outs, fnVars, unitVars>>

\* main.rs 796
MainQuit ==
    /\ pc = "top" /\ user_input.kind = "Quit"
    /\ pc' = "exit"
    /\ UNCHANGED <<info, mouse_info, done, user_input, image_buffer, iter, count,
                   pixel, writes, zoom_ins, zoom_outs, calls, fnVars, unitVars>>

\* The zoom-in does not set done to false.
MainZoomIn_KeepsDone ==
    /\ pc = "top" /\ user_input.kind = "ZoomIn"
    /\ info' = WindowAndViewportInfo_new(
                   info.width, info.height, user_input.x, user_input.y,
                   FDiv(info.distance_from_center_to_edge, F(2)),
                   info.zoom_level + 1)
    /\ user_input' = Nothing
    /\ zoom_ins' = zoom_ins + 1
    /\ calls' = 0
    /\ UNCHANGED <<pc, mouse_info, done, image_buffer, iter, count, pixel, writes,
                   zoom_outs, fnVars, unitVars>>

\* main.rs 799-807
MainZoomIn ==
    /\ pc = "top" /\ user_input.kind = "ZoomIn"
    /\ info' = WindowAndViewportInfo_new(
                   info.width, info.height, user_input.x, user_input.y,
                   FDiv(info.distance_from_center_to_edge, F(2)),
                   info.zoom_level + 1)
    /\ done' = FALSE
    /\ user_input' = Nothing
    /\ zoom_ins' = zoom_ins + 1
    /\ calls' = 0
    /\ UNCHANGED <<pc, mouse_info, image_buffer, iter, count, pixel, writes,
                   zoom_outs, fnVars, unitVars>>

\* The zoom-out leaves the half-span as it is.
MainZoomOut_SpanNotDoubled ==
    /\ pc = "top" /\ user_input.kind = "ZoomOut"
    /\ info' = WindowAndViewportInfo_new(
                   info.width, info.height, user_input.x, user_input.y,
                   info.distance_from_center_to_edge,
                   info.zoom_level - 1)
    /\ done' = FALSE
    /\ user_input' = Nothing
    /\ zoom_outs' = zoom_outs + 1
    /\ calls' = 0
    /\ UNCHANGED <<pc, mouse_info, image_buffer, iter, count, pixel, writes,
                   zoom_ins, fnVars, unitVars>>

\* main.rs 808-816
MainZoomOut ==
    /\ pc = "top" /\ user_input.kind = "ZoomOut"
    /\ info' = WindowAndViewportInfo_new(
                   info.width, info.height, user_input.x, user_input.y,
                   FMul(info.distance_from_center_to_edge, F(2)),
                   info.zoom_level - 1)
    /\ done' = FALSE
    /\ user_input' = Nothing
    /\ zoom_outs' = zoom_outs + 1
    /\ calls' = 0
    /\ UNCHANGED <<pc, mouse_info, image_buffer, iter, count, pixel, writes,
                   zoom_ins, fnVars, unitVars>>

\* main.rs 795-831 with the frame complete: refresh the screen and poll
MainIdle ==
    /\ pc = "top" /\ user_input.kind \in PassiveKinds /\ done
    /\ \E window \in WindowSamples(info) :
          LET r == get_user_input(window, info, mouse_info)
          IN  /\ WithinZoomBound(r.input)
              /\ user_input' = r.input
              /\ mouse_info' = r.mouse_info
    /\ calls' = 0
    /\ UNCHANGED <<pc, info, done, image_buffer, iter, count, pixel, writes,
                   zoom_ins, zoom_outs, fnVars, unitVars>>

\* The spiral of the pass starts at the upper-left cell (0, 0).
MainStartPass_SeedsAtOrigin ==
    /\ pc = "top" /\ user_input.kind \in PassiveKinds /\ ~done
    /\ iter' = RowAndColumnIterator_new(0, 0)
    /\ count' = 0
    /\ writes' = [i \in Cells(info) |-> 0]
    /\ pc' = "find"
    /\ calls' = AfterTopMatch(user_input, calls)
    /\ UNCHANGED <<info, mouse_info, done, user_input, image_buffer, pixel,
                   zoom_ins, zoom_outs, fnVars, unitVars>>

\* main.rs 795-850 with the frame not complete: a render pass begins
MainStartPass ==
    /\ pc = "top" /\ user_input.kind \in PassiveKinds /\ ~done
    /\ LET half_width == info.width \div 2
           half_height == info.height \div 2
       IN  iter' = RowAndColumnIterator_new(half_width, half_height)
    /\ count' = 0
    /\ writes' = [i \in Cells(info) |-> 0]
    /\ pc' = "find"
    /\ calls' = AfterTopMatch(user_input, calls)
    /\ UNCHANGED <<info, mouse_info, done, user_input, image_buffer, pixel,
                   zoom_ins, zoom_outs, fnVars, unitVars>>

\* main.rs 853-869: one turn of the inner loop, one call of next()
FindPixel ==
    /\ pc = "find"
    /\ iter' = IteratorNext(iter)
    /\ IF iter'.panicked
       THEN pc' = "panic" /\ pixel' = pixel
       ELSE IF InWindow(IteratorItem(iter'), info)
       THEN pc' = "plot" /\ pixel' = IteratorItem(iter')
       ELSE pc' = "find" /\ pixel' = pixel
    /\ UNCHANGED <<info, mouse_info, done, user_input, image_buffer, count, writes,
                   zoom_ins, zoom_outs, calls, fnVars, unitVars>>

\* main.rs 871-884: compute the pixel and store it
Plotted ==
    LET xy == convert_row_and_column_to_x_and_y(info, F(pixel[1]), F(pixel[2]))
        threshold == FDiv(info.delta_x, F(4))
        i == pixel[1] * info.width + pixel[2]
    IN  [index |-> i, color |-> PixelColor(xy[1], xy[2], threshold)]

\* main.rs 850, 900-901: the for loop goes on to its next value, or ends
ForLoopNext ==
    /\ count' = count + 1
    /\ IF count + 1 = info.width * info.height
       THEN done' = TRUE /\ pc' = "top"
       ELSE done' = done /\ pc' = "find"

\* main.rs 871-887, 900-901: a pixel is plotted and it is not yet time to poll
PlotPixel ==
    /\ pc = "plot"
    /\ IF Plotted.index \notin DOMAIN image_buffer
       THEN /\ pc' = "panic"
            /\ UNCHANGED <<image_buffer, writes, count, done>>
       ELSE /\ image_buffer' = [image_buffer EXCEPT ![Plotted.index] = Plotted.color]
            /\ writes' = [writes EXCEPT ![Plotted.index] = @ + 1]
            /\ ForLoopNext
    /\ UNCHANGED <<info, mouse_info, user_input, iter, pixel,
                   zoom_ins, zoom_outs, calls, fnVars, unitVars>>

\* main.rs 871-901: a pixel is plotted, a millisecond has passed: refresh, poll
\* and act on the input
PlotPixelAndPoll ==
    /\ pc = "plot"
    /\ Plotted.index \in DOMAIN image_buffer
    /\ image_buffer' = [image_buffer EXCEPT ![Plotted.index] = Plotted.color]
    /\ writes' = [writes EXCEPT ![Plotted.index] = @ + 1]
    /\ \E window \in WindowSamples(info) :
          LET r == get_user_input(window, info, mouse_info)
              after == AfterCheckpoint(r.input)
          IN  /\ WithinZoomBound(r.input)
              /\ user_input' = r.input
              /\ mouse_info' = r.mouse_info
              /\ calls' = AfterCheckpointMatch(r.input)
              /\ IF after = "next_pixel" THEN ForLoopNext
                 ELSE IF after = "break_main"
                 THEN pc' = "exit" /\ UNCHANGED <<count, done>>
                 ELSE pc' = "top" /\ UNCHANGED <<count, done>>
    /\ UNCHANGED <<info, iter, pixel, zoom_ins, zoom_outs, fnVars, unitVars>>

(***************************************************************************)
(* Specifications                                                          *)
(***************************************************************************)
IdleMain ==
    /\ pc = "exit"
    /\ info = WindowAndViewportInfo_new(1, 1, F(0), F(0), F(1), 0)
    /\ mouse_info = MouseInfo_new
    /\ done = FALSE
    /\ user_input = Nothing
    /\ image_buffer = [i \in 0..0 |-> Blank]
    /\ iter = RowAndColumnIterator_new(0, 0)
    /\ count = 0
    /\ pixel = <<0, 0>>
    /\ writes = [i \in 0..0 |-> 0]
    /\ zoom_ins = 0 /\ zoom_outs = 0
    /\ calls = 0

IdleEv == Return(EscapeEntry(0, 0, None, None, None), None, "none")
IdleSp == RowAndColumnIterator_new(0, 0)

IdleUnits ==
    /\ viewport = None
    /\ center_xy = None
    /\ samples = <<>>

EscapeInit ==
    /\ ev \in EscapeInputs
    /\ sp = IdleSp /\ items = <<>>
    /\ color_in = None /\ color_out = color(None)
    /\ IdleMain
    /\ IdleUnits

EscapeNext == EvFast1 \/ EvFast2 \/ EvSlow

EscapeSpec == EscapeInit /\ [][EscapeNext]_vars

\* The loop of calculate_escape_value runs on its own thread of control and
\* is never suspended: each section that can run does run.
FairEscapeSpec ==
    EscapeSpec /\ WF_vars(EvFast1) /\ WF_vars(EvFast2) /\ WF_vars(EvSlow)

SpiralInit ==
    /\ ev = IdleEv
    /\ \E r \in 0..MaxStart, c \in 0..MaxStart : sp = RowAndColumnIterator_new(r, c)
    /\ items = <<>>
    /\ color_in = None /\ color_out = color(None)
    /\ IdleMain
    /\ IdleUnits

SpiralSpec == SpiralInit /\ [][SpiralNext]_vars

ColorInit ==
    /\ ev = IdleEv
    /\ sp = IdleSp /\ items = <<>>
    /\ color_in = None /\ color_out = color(None)
    /\ IdleMain
    /\ IdleUnits

ColorSpec == ColorInit /\ [][ColorCall]_vars

\* main.rs 653-789: the state when main reaches its first poll
MainInit ==
    /\ ev = IdleEv
    /\ sp = IdleSp /\ items = <<>>
    /\ color_in = None /\ color_out = color(None)
    /\ pc = "start"
    /\ \E window_size_to_use \in 1..MaxSize :
          LET width == window_size_to_use
              height == window_size_to_use
              original_center_to_use == ORIGINAL_CENTER
          IN  /\ info = WindowAndViewportInfo_new(
                            width, height,
                            original_center_to_use[1], original_center_to_use[2],
                            ORIGINAL_DISTANCE_FROM_CENTER_TO_EDGE, 0)
              /\ image_buffer = [i \in 0..(width * height - 1) |-> Blank]
              /\ writes = [i \in 0..(width * height - 1) |-> 0]
    /\ mouse_info = MouseInfo_new
    /\ done = FALSE
    /\ user_input = Nothing
    /\ iter = RowAndColumnIterator_new(0, 0)
    /\ count = 0
    /\ pixel = <<0, 0>>
    /\ zoom_ins = 0 /\ zoom_outs = 0
    /\ calls = 0
    /\ IdleUnits

\* MouseInfo::new(), no sample given yet
MouseInit ==
    /\ ev = IdleEv
    /\ sp = IdleSp /\ items = <<>>
    /\ color_in = None /\ color_out = color(None)
    /\ IdleMain
    /\ IdleUnits

MouseSpec == MouseInit /\ [][MouseSample]_vars

ViewportInit ==
    /\ ev = IdleEv
    /\ sp = IdleSp /\ items = <<>>
    /\ color_in = None /\ color_out = color(None)
    /\ IdleMain
    /\ IdleUnits

ViewportNext == ViewportNew \/ ViewportCenterCell

ViewportSpec == ViewportInit /\ [][ViewportNext]_vars

Next ==
    \/ MainFirstPoll
    \/ MainQuit
    \/ MainZoomIn
    \/ MainZoomOut
    \/ MainIdle
    \/ MainStartPass
    \/ FindPixel
    \/ PlotPixel
    \/ PlotPixelAndPoll

Spec == MainInit /\ [][Next]_vars

(***************************************************************************)
(* Properties of calculate_escape_value                                    *)
(***************************************************************************)
Returned == ev.pc = "returned"

\* C1: the call returns Escaped(0) exactly when the input point has
\* x*x + y*y > 4, whatever the mode, threshold and bailout; a point with
\* x*x + y*y = 4 is not reported as Escaped(0).
C1_EscapedZeroIffOutside ==
    Returned => ((ev.ret = Some(0)) <=> (ev.x * ev.x + ev.y * ev.y > 4))

C1_Witness ==
    /\ Returned /\ ev.ret = Some(0)
    /\ ev.mode.some /\ ev.threshold > 0 /\ ev.bailout.some

Max(a, b) == IF a >= b THEN a ELSE b

\* C2: with a bailout b configured (0 included) the loop never goes on with
\* iterations at or beyond max(b,1), never returns Escaped(i) with
\* i >= max(b,1), and updates the fast point at most max(b,1) times.
C2_BailoutCapsEveryRun ==
    ev.bailout.some =>
        LET cap == Max(ev.bailout.val, 1)
        IN  /\ ~Returned => ev.iterations < cap
            /\ (Returned /\ ev.ret.some) => ev.ret.val < cap
            /\ ev.fast_updates <= cap

\* The exact orbit z -> z*z + c from (zx, zy) stays in the closed disc of
\* radius 2 for n more steps.
RECURSIVE OrbitStaysInDisc(_, _, _, _, _)
OrbitStaysInDisc(zx, zy, cx, cy, n) ==
    /\ zx * zx + zy * zy <= 4
    /\ \/ n = 0
       \/ OrbitStaysInDisc(zx * zx - zy * zy + cx, 2 * zx * zy + cy, cx, cy, n - 1)

\* An orbit of lattice points that stays in the disc for as many steps as the
\* disc has lattice points has repeated a point: it is eventually periodic and
\* never leaves the disc.
DiscLatticePoints ==
    Cardinality({p \in (-2..2) \X (-2..2) : p[1] * p[1] + p[2] * p[2] <= 4})

BoundedPeriodicOrbit == OrbitStaysInDisc(ev.x, ev.y, ev.c_x, ev.c_y, DiscLatticePoints)

C3_Case == ev.threshold = 0 /\ ~ev.bailout.some /\ BoundedPeriodicOrbit

\* C3: with threshold 0 and no bailout, a call on a point whose exact orbit is
\* eventually periodic inside the disc terminates, and returns Bounded through
\* a cycle match; the call on (0,0) in Mandelbrot mode returns at the first
\* cycle check, with zero iterations counted.
C3_PeriodicOrbitReturnsBounded ==
    /\ [](C3_Case /\ Returned => ev.ret = None /\ ev.via = "cycle")
    /\ []((C3_Case /\ <<ev.x, ev.y>> = <<0, 0>> /\ ~ev.mode.some) =>
            \/ ev.pc = "fast1" /\ ev.fast_updates = 0
            \/ Returned /\ ev.ret = None /\ ev.iterations = 0 /\ ev.fast_updates = 1)
    /\ ((C3_Case /\ ~Returned) ~> Returned)

C3_Witness ==
    /\ C3_Case /\ Returned /\ ev.ret = None
    /\ ev.iterations >= 2 /\ <<ev.x_slow, ev.y_slow>> # <<ev.x, ev.y>>

\* The same call with threshold 0, at its return
ExactRun == calculate_escape_value(ev.x, ev.y, ev.mode, Some(0), ev.bailout)

\* C4: if the call with threshold 0 returns Bounded through a cycle match with
\* the counter at n, the call with a threshold t > 0 never has its counter
\* above n, makes no more fast updates, and returns Bounded.
C4_ThresholdNeverDelaysBounded ==
    (ev.threshold > 0 /\ ExactRun.pc = "returned" /\ ExactRun.via = "cycle") =>
        /\ ev.iterations <= ExactRun.iterations
        /\ ev.fast_updates <= ExactRun.fast_updates
        /\ Returned => ev.ret = None

C4_Witness ==
    /\ ev.threshold > 0 /\ ExactRun.pc = "returned" /\ ExactRun.via = "cycle"
    /\ Returned /\ ev.ret = None /\ ev.via = "cycle"
    /\ ev.iterations < ExactRun.iterations

\* C5 as stated: if the call with threshold 0 returns Escaped(n), the call with
\* a threshold t > 0 never returns Bounded with its counter below n.
C5_NoBoundedBeforeEscape ==
    (ev.threshold > 0 /\ ExactRun.pc = "returned" /\ ExactRun.ret.some) =>
        ~(Returned /\ ev.ret = None /\ ev.iterations < ExactRun.ret.val)

\* C5 as amended: if the call with threshold 0 returns Escaped(n), the call
\* with a threshold t > 0 never has its counter above n and returns either
\* Escaped(n) or Bounded (never Escaped(m) with m # n).
C5_EscapeCountUnchangedByThreshold ==
    (ev.threshold > 0 /\ ExactRun.pc = "returned" /\ ExactRun.ret.some) =>
        /\ ev.iterations <= ExactRun.ret.val
        /\ Returned => (ev.ret = None \/ ev.ret = ExactRun.ret)

C5_Witness ==
    /\ ev.threshold > 0 /\ ExactRun.pc = "returned" /\ ExactRun.ret.some
    /\ Returned /\ ev.ret = ExactRun.ret /\ ev.ret.val >= 2

(***************************************************************************)
(* Properties of RowAndColumnIterator                                      *)
(***************************************************************************)
Square(r) == {<<dr, dc>> : dr \in (-r)..r, dc \in (-r)..r}

FromOrigin == <<sp.start_row, sp.start_column>> = <<0, 0>>

\* C6: started at (0,0), the first (2r+1)^2 items are exactly the offsets of
\* the square of radius r, each once; the first item is (0,0) and each later
\* item differs from the one before it by 1 in exactly one coordinate.
C6_SpiralCompleteness ==
    FromOrigin =>
        /\ \A r \in 0..MaxRadius :
              LET n == (2 * r + 1) * (2 * r + 1)
              IN  Len(items) >= n => {items[k] : k \in 1..n} = Square(r)
        /\ Len(items) >= 1 => items[1] = <<0, 0>>
        /\ \A k \in 2..Len(items) :
              Abs(items[k][1] - items[k - 1][1]) + Abs(items[k][2] - items[k - 1][2]) = 1

C6_Witness == FromOrigin /\ Len(items) = MaxItems

\* C7: no call of next() reaches the panic branch of the step function.
C7_SpiralNeverPanics == ~sp.panicked

C7_Witness ==
    /\ sp.started /\ ~sp.panicked
    /\ sp.row < -1 /\ sp.row < -Abs(sp.column) /\ sp.column < 0
    /\ <<sp.start_row, sp.start_column>> # <<0, 0>>

(***************************************************************************)
(* Properties of main                                                      *)
(***************************************************************************)
InPass == pc \in {"find", "plot"}
NumPixels == info.width * info.height
Written == {i \in DOMAIN writes : writes[i] > 0}

C8_PassState ==
    /\ pc # "panic"
    /\ InPass =>
          /\ count < NumPixels
          /\ Cardinality(Written) = count
          /\ \A i \in DOMAIN writes : writes[i] <= 1
          /\ Abs(iter.row) <= info.height /\ Abs(iter.column) <= info.width
    /\ pc = "plot" =>
          /\ pixel[1] \in 0..(info.height - 1) /\ pixel[2] \in 0..(info.width - 1)
          /\ pixel[1] * info.width + pixel[2] < NumPixels
          /\ writes[pixel[1] * info.width + pixel[2]] = 0
    /\ done =>
          /\ count = NumPixels
          /\ DOMAIN writes = 0..(NumPixels - 1)
          /\ \A i \in DOMAIN writes : writes[i] = 1

C8_PassStep ==
    /\ (pc = "find" /\ pc' = "find") => (count' = count /\ writes' = writes)
    /\ (pc = "plot" /\ pc' = "find") =>
          (iter' = iter /\ count' = count + 1 /\ info' = info)
    /\ done' /\ ~done => (pc = "plot" /\ count' = NumPixels)

\* C8: a pass that is not interrupted consumes exactly width*height in-bounds
\* coordinates: spiral coordinates outside the window are skipped without
\* counting, every write goes to a cell row*width+column < width*height not
\* yet written in this pass, the frame is done only when every cell has been
\* written exactly once, the spiral never leaves the rings that touch the
\* window, and a step from a plotted pixel back to the search (with or without
\* a poll of Nothing, SaveScreenShot or ShowCoordinates) leaves the spiral
\* position unchanged.
C8_PassVisitsEveryPixelOnce == [](C8_PassState) /\ [][C8_PassStep]_vars

C8_Witness ==
    /\ pc = "find" /\ count >= 1 /\ zoom_ins + zoom_outs = 0
    /\ mouse_info.left_mouse_button_pressed = <<TRUE, TRUE>>
    /\ user_input.kind = "SaveScreenShot"
    /\ iter.started /\ ~InWindow(IteratorItem(iter), info)

ThisPixel ==
    PixelColor(convert_row_and_column_to_x_and_y(info, F(pixel[1]), F(pixel[2]))[1],
               convert_row_and_column_to_x_and_y(info, F(pixel[1]), F(pixel[2]))[2],
               FDiv(info.delta_x, F(4)))

C9_AbortState ==
    /\ InPass => user_input.kind \in PassiveKinds
    /\ (pc = "plot" /\ count = 0) => pixel = <<info.height \div 2, info.width \div 2>>

C9_AbortStep ==
    /\ (pc = "plot" /\ user_input'.kind = "Quit") => pc' = "exit"
    /\ (pc = "plot" /\ user_input'.kind \in ZoomKinds) => (pc' = "top" /\ count' = count)
    /\ (pc = "top" /\ user_input.kind = "Quit") => pc' = "exit"
    /\ pc = "exit" => (pc' = "exit" /\ image_buffer' = image_buffer)
    /\ (pc = "top" /\ user_input.kind \in ZoomKinds) =>
          /\ pc' = "top" /\ ~done' /\ user_input' = Nothing
          /\ image_buffer' = image_buffer
          /\ info' = WindowAndViewportInfo_new(
                        info.width, info.height, user_input.x, user_input.y,
                        IF user_input.kind = "ZoomIn"
                        THEN FDiv(info.distance_from_center_to_edge, F(2))
                        ELSE FMul(info.distance_from_center_to_edge, F(2)),
                        IF user_input.kind = "ZoomIn"
                        THEN info.zoom_level + 1 ELSE info.zoom_level - 1)
    /\ info' # info => (pc = "top" /\ user_input.kind \in ZoomKinds)
    /\ (pc = "top" /\ pc' = "find") => (count' = 0 /\ ~iter'.started /\ info' = info)
    /\ image_buffer' # image_buffer =>
          /\ pc = "plot" /\ info' = info
          /\ image_buffer' =
                [image_buffer EXCEPT ![pixel[1] * info.width + pixel[2]] = ThisPixel]

\* C9: a zoom or quit input polled at a checkpoint aborts the pass: no pixel
\* is searched for or plotted while such an input is pending; on quit main
\* leaves its loop and writes nothing more; on zoom the viewport is replaced
\* (and only then) before anything is plotted, and the next pixel plotted is
\* the first of a new pass, at the centre cell, computed under the new viewport.
C9_ZoomOrQuitAbortsPass == [](C9_AbortState) /\ [][C9_AbortStep]_vars

C9_Witness ==
    /\ pc = "find" /\ count = 1 /\ zoom_ins + zoom_outs >= 1
    /\ \E i \in DOMAIN image_buffer : image_buffer[i] = Blank
    /\ \E i \in DOMAIN image_buffer :
          /\ image_buffer[i] # Blank
          /\ image_buffer[i].threshold # FDiv(info.delta_x, F(4))
    /\ image_buffer[(info.height \div 2) * info.width + info.width \div 2] =
          PixelColor(
              convert_row_and_column_to_x_and_y(
                  info, F(info.height \div 2), F(info.width \div 2))[1],
              convert_row_and_column_to_x_and_y(
                  info, F(info.height \div 2), F(info.width \div 2))[2],
              FDiv(info.delta_x, F(4)))

(***************************************************************************)
(* Properties of color                                                     *)
(***************************************************************************)
\* C10: color never panics; None maps to (0,0,102); Some(i) maps, with
\* v = i mod 90, leg = v div 30, rem = v mod 30, value1 = (30-rem)*255 div 30,
\* value2 = rem*255 div 30, to (value1,value2,0), (0,value1,value2) or
\* (value2,0,value1) for leg 0, 1, 2; color(Some(i)) = color(Some(i+90));
\* color(Some(0)) = (255,0,0); both values lie in 0..255 and leg < 3.
C10_ColorIsReferencePalette ==
    /\ ~color_out.panicked
    /\ ~color_in.some => color_out.rgb = <<0, 0, 102>>
    /\ color_in.some =>
          LET i == color_in.val
              v == i % 90
              leg == v \div 30
              rem == v % 30
              value1 == ((30 - rem) * 255) \div 30
              value2 == (rem * 255) \div 30
          IN  /\ leg \in 0..2 /\ value1 \in 0..255 /\ value2 \in 0..255
              /\ leg = 0 => color_out.rgb = <<value1, value2, 0>>
              /\ leg = 1 => color_out.rgb = <<0, value1, value2>>
              /\ leg = 2 => color_out.rgb = <<value2, 0, value1>>
              /\ color(Some(i + 90)) = color_out
              /\ i = 0 => color_out.rgb = <<255, 0, 0>>

C10_Witness ==
    /\ color_in.some /\ color_in.val >= 90 /\ (color_in.val % 90) \div 30 = 2
    /\ ~color_out.panicked /\ color_out.rgb[2] = 0

(***************************************************************************)
(* Properties of the viewport                                              *)
(***************************************************************************)
IsEven(n) == n % 2 = 0

\* C11: for every viewport with width >= 1, height >= 1 and half-span > 0,
\* the point of the cell (height/2, width/2) differs from the centre by at
\* most one delta_x in x and one delta_y in y, the deltas being 2 * half-span
\* over the width and over the height; when width and height are even the
\* point is exactly (center_x + delta_x/2, center_y - delta_y/2).
C11_ViewportRoundTrip ==
    center_xy.some =>
        LET i == viewport.val
            p == center_xy.val
            dx == FDiv(FMul(F(2), i.distance_from_center_to_edge), F(i.width))
            dy == FDiv(FMul(F(2), i.distance_from_center_to_edge), F(i.height))
        IN  /\ FLe(FAbs(FSub(p[1], i.center_x)), dx)
            /\ FLe(FAbs(FSub(p[2], i.center_y)), dy)
            /\ (IsEven(i.width) /\ IsEven(i.height)) =>
                   /\ p[1] = FAdd(i.center_x, FDiv(dx, F(2)))
                   /\ p[2] = FSub(i.center_y, FDiv(dy, F(2)))

\* A viewport that is not square, with even sides, has been converted
C11_Witness ==
    /\ center_xy.some
    /\ IsEven(viewport.val.width) /\ IsEven(viewport.val.height)
    /\ viewport.val.width # viewport.val.height
    /\ viewport.val.distance_from_center_to_edge = Rat(69, 40)

(***************************************************************************)
(* Properties of main: the seed of a pass, the zooms                       *)
(***************************************************************************)
CenterCell == <<info.height \div 2, info.width \div 2>>
CenterIndex == CenterCell[1] * info.width + CenterCell[2]

ClickPoints(i) ==
    {convert_row_and_column_to_x_and_y(i, F(cell[1]), F(cell[2])) : cell \in MouseCells(i)}

\* A pending zoom input carries the clicked point (left button) or its
\* reflection through the centre (right button), under the viewport in place
C13_Pending ==
    /\ user_input.kind \in ZoomKinds => pc = "top"
    /\ user_input.kind = "ZoomIn" =>
           \E P \in ClickPoints(info) : <<user_input.x, user_input.y>> = P
    /\ user_input.kind = "ZoomOut" =>
           \E P \in ClickPoints(info) :
               /\ user_input.x = FSub(FMul(F(2), info.center_x), P[1])
               /\ user_input.y = FSub(FMul(F(2), info.center_y), P[2])

\* The viewport's derived fields follow from its centre and half-span
Derived(i) ==
    /\ i.span = FMul(F(2), i.distance_from_center_to_edge)
    /\ i.min_x = FSub(i.center_x, i.distance_from_center_to_edge)
    /\ i.max_x = FAdd(i.center_x, i.distance_from_center_to_edge)
    /\ i.min_y = FSub(i.center_y, i.distance_from_center_to_edge)
    /\ i.max_y = FAdd(i.center_y, i.distance_from_center_to_edge)
    /\ i.delta_x = FDiv(i.span, F(i.width))
    /\ i.delta_y = FDiv(i.span, F(i.height))

ZoomHandled == zoom_ins' + zoom_outs' = zoom_ins + zoom_outs + 1

C13_Handled ==
    /\ (ZoomHandled /\ user_input.kind = "ZoomIn") =>
           \E P \in ClickPoints(info) :
               info'.center_x = P[1] /\ info'.center_y = P[2]
    /\ (ZoomHandled /\ user_input.kind = "ZoomOut") =>
           \E P \in ClickPoints(info) :
               /\ info'.center_x = FSub(FMul(F(2), info.center_x), P[1])
               /\ info'.center_y = FSub(FMul(F(2), info.center_y), P[2])
    /\ ZoomHandled => (info' # info /\ Derived(info'))
    /\ info' # info => ZoomHandled

\* C13: a left-button release over a pixel that maps to P, under the viewport
\* in place at the poll, makes P the new centre when it is handled; a
\* right-button release makes the reflection of P through the current
\* centre, (2*center_x - P.x, 2*center_y - P.y), the new centre; either way
\* the viewport is replaced by one whose span, min, max and delta follow
\* from the new centre and half-span, and nothing else replaces it.
C13_ZoomRecentres == [](C13_Pending /\ Derived(info)) /\ [][C13_Handled]_vars

\* A zoom-out has been handled and has moved the centre
C13_Witness ==
    /\ zoom_outs = 1 /\ zoom_ins = 0
    /\ <<info.center_x, info.center_y>> # ORIGINAL_CENTER
    /\ pc = "plot"

RECURSIVE Pow2(_)
Pow2(n) == IF n = 0 THEN 1 ELSE 2 * Pow2(n - 1)

\* The half-span of zoom level z: the original one times 2^(-z)
HalfSpanOfLevel(z) ==
    IF z >= 0 THEN FDiv(ORIGINAL_DISTANCE_FROM_CENTER_TO_EDGE, F(Pow2(z)))
    ELSE FMul(ORIGINAL_DISTANCE_FROM_CENTER_TO_EDGE, F(Pow2(-z)))

C14_State ==
    /\ info.zoom_level = zoom_ins - zoom_outs
    /\ info.distance_from_center_to_edge = HalfSpanOfLevel(info.zoom_level)
    /\ info.width * info.height = Cardinality(DOMAIN image_buffer)

C14_Step ==
    /\ info'.width = info.width /\ info'.height = info.height
    /\ (pc = "top" /\ user_input.kind = "ZoomIn") =>
           (info'.zoom_level = info.zoom_level + 1 /\ user_input'.kind = "Nothing")
    /\ (pc = "top" /\ user_input.kind = "ZoomOut") =>
           (info'.zoom_level = info.zoom_level - 1 /\ user_input'.kind = "Nothing")
    /\ info'.zoom_level # info.zoom_level => (pc = "top" /\ user_input.kind \in ZoomKinds)

\* C14: after any sequence of handled zooms the width and the height are
\* those of the start, zoom_level is the number of zoom-ins handled minus the
\* number of zoom-outs handled, and the half-span is the original one times
\* 2^(-zoom_level); each polled zoom input moves zoom_level by exactly one,
\* once; so a zoom-in followed by a zoom-out restores half-span and level.
C14_ZoomAlgebra == [](C14_State) /\ [][C14_Step]_vars

\* A zoom-in and a zoom-out have been handled: level and half-span are back,
\* the centre is not
C14_Witness ==
    /\ zoom_ins = 1 /\ zoom_outs = 1
    /\ info.zoom_level = 0
    /\ info.distance_from_center_to_edge = ORIGINAL_DISTANCE_FROM_CENTER_TO_EDGE
    /\ <<info.center_x, info.center_y>> # ORIGINAL_CENTER

(***************************************************************************)
(* calculate_escape_value against the round-by-round algorithm             *)
(***************************************************************************)
\* One advance of the fast point in the round-by-round algorithm: escape
\* test, update, count, bailout test; no comparison with the slow point.
PerRoundFast(s, nextpc) ==
    IF s.x_fast * s.x_fast + s.y_fast * s.y_fast > 4
    THEN Return(s, Some(s.iterations), "escape")
    ELSE LET counted == [s EXCEPT
                           !.x_fast = s.x_fast * s.x_fast - s.y_fast * s.y_fast + s.c_x,
                           !.y_fast = 2 * s.x_fast * s.y_fast + s.c_y,
                           !.fast_updates = @ + 1,
                           !.iterations = @ + 1]
         IN  IF s.bailout.some /\ counted.iterations = s.bailout.val
             THEN Return(counted, None, "bailout")
             ELSE [counted EXCEPT !.pc = nextpc]

\* One round: two advances of the fast point, one of the slow point, and
\* only then the comparison
PerRoundStep(s) ==
    CASE s.pc = "fast1" -> PerRoundFast(s, "fast2")
      [] s.pc = "fast2" -> PerRoundFast(s, "slow")
      [] s.pc = "slow" -> SlowAdvance(s)
      [] OTHER -> s

RECURSIVE PerRoundRun(_)
PerRoundRun(s) == IF Followed(s) THEN PerRoundRun(PerRoundStep(s)) ELSE s

\* The round-by-round algorithm on the arguments of the call in progress
PerRound == PerRoundRun(EscapeEntry(ev.x, ev.y, ev.mode, ev.threshold_arg, ev.bailout))

BothReturned == Returned /\ PerRound.pc = "returned"

\* C15 as stated: calculate_escape_value returns what the round-by-round
\* algorithm returns (two fast advances, each after an escape test and
\* followed by the increment and the bailout test, one slow advance, and only
\* then the comparison of fast with slow), for every point, mode, threshold
\* and bailout of the bounded set.
C15_SameAsPerRound == BothReturned => ev.ret = PerRound.ret

\* C15 as amended: with threshold 0 the two return the same result; with a
\* threshold t > 0 calculate_escape_value returns the round-by-round result
\* or Bounded, its counter never above the one the round-by-round algorithm
\* returns with.
C15_SameOrBoundedEarlier ==
    /\ BothReturned =>
           /\ ev.threshold = 0 => ev.ret = PerRound.ret
           /\ ev.ret = None \/ ev.ret = PerRound.ret
    /\ PerRound.pc = "returned" => ev.iterations <= PerRound.iterations

\* A call with a threshold has returned Bounded from the comparison that
\* follows a fast advance, where the round-by-round algorithm escapes
C15_Witness ==
    /\ BothReturned
    /\ ev.threshold > 0 /\ ev.ret = None /\ ev.via = "cycle"
    /\ ev.fast_updates = ev.iterations + 1
    /\ PerRound.ret.some

\* The element z_n of the exact orbit z_0 = (zx, zy), z_{k+1} = z_k^2 + c
RECURSIVE OrbitAt(_, _, _, _, _)
OrbitAt(zx, zy, cx, cy, n) ==
    IF n = 0 THEN <<zx, zy>>
    ELSE OrbitAt(zx * zx - zy * zy + cx, 2 * zx * zy + cy, cx, cy, n - 1)

\* n is the index of the first element of the orbit outside the closed disc
FirstEscapeIndex(zx, zy, cx, cy, n) ==
    /\ n >= 1 => OrbitStaysInDisc(zx, zy, cx, cy, n - 1)
    /\ LET z == OrbitAt(zx, zy, cx, cy, n) IN z[1] * z[1] + z[2] * z[2] > 4

\* C16: whenever calculate_escape_value returns Escaped(n), n is the number
\* of updates of the fast point made so far and the index of the first
\* element of the exact orbit of the point whose squared modulus exceeds 4,
\* for every threshold and bailout; the counter equals the number of fast
\* updates at every point of the loop, slow updates leaving it alone, except
\* at a return of Bounded from the comparison that follows a fast update,
\* which comes before that update's increment.
C16_EscapedIndexIsFirstEscape ==
    /\ (Returned /\ ev.ret.some) =>
           /\ ev.via = "escape"
           /\ ev.ret.val = ev.fast_updates
           /\ ev.ret.val = ev.iterations
           /\ FirstEscapeIndex(ev.x, ev.y, ev.c_x, ev.c_y, ev.ret.val)
    /\ \/ ev.iterations = ev.fast_updates
       \/ Returned /\ ev.via = "cycle" /\ ev.fast_updates = ev.iterations + 1

\* A call with a threshold and a bailout has escaped in its second round or
\* later, the slow point having moved
C16_Witness ==
    /\ Returned /\ ev.ret.some /\ ev.ret.val >= 3
    /\ ev.threshold > 0 /\ ev.bailout.some
    /\ <<ev.x_slow, ev.y_slow>> # <<ev.x, ev.y>>

(***************************************************************************)
(* Properties of MouseInfo                                                 *)
(***************************************************************************)
\* The sample k places before the end of the history, button b (1 left,
\* 2 right); before the first sample the history is (false, false)
SampleBack(k, b) ==
    IF Len(samples) > k THEN samples[Len(samples) - k][b] ELSE FALSE

\* C17: starting from the history (false, false), after any sequence of
\* samples, for each button currently_pressed is the last sample,
\* just_pressed holds exactly when the last sample is true and the one before
\* it false, just_released exactly when the last is false and the one before
\* it true; the two are never both true, and a sample equal to the one before
\* it reports no edge.
C17_EdgeLatching ==
    /\ left_mouse_button_currently_pressed(mouse_info) = SampleBack(0, 1)
    /\ right_mouse_button_currently_pressed(mouse_info) = SampleBack(0, 2)
    /\ left_mouse_button_just_pressed(mouse_info) = (SampleBack(0, 1) /\ ~SampleBack(1, 1))
    /\ right_mouse_button_just_pressed(mouse_info) = (SampleBack(0, 2) /\ ~SampleBack(1, 2))
    /\ left_mouse_button_just_released(mouse_info) = (~SampleBack(0, 1) /\ SampleBack(1, 1))
    /\ right_mouse_button_just_released(mouse_info) = (~SampleBack(0, 2) /\ SampleBack(1, 2))
    /\ ~(left_mouse_button_just_pressed(mouse_info)
          /\ left_mouse_button_just_released(mouse_info))
    /\ ~(right_mouse_button_just_pressed(mouse_info)
          /\ right_mouse_button_just_released(mouse_info))
    /\ SampleBack(0, 1) = SampleBack(1, 1) =>
           /\ ~left_mouse_button_just_pressed(mouse_info)
           /\ ~left_mouse_button_just_released(mouse_info)
    /\ SampleBack(0, 2) = SampleBack(1, 2) =>
           /\ ~right_mouse_button_just_pressed(mouse_info)
           /\ ~right_mouse_button_just_released(mouse_info)

\* The left button was pressed, held and released while the right one was
\* pressed at the last sample: the release is reported, the earlier press is
\* not any more
C17_Witness ==
    /\ Len(samples) = 3
    /\ samples[1][1] /\ samples[2][1] /\ ~samples[3][1]
    /\ ~samples[2][2] /\ samples[3][2]
    /\ left_mouse_button_just_released(mouse_info)
    /\ right_mouse_button_just_pressed(mouse_info)

(***************************************************************************)
(* Properties of main: the finished frame, the served inputs               *)
(***************************************************************************)
\* The colour of the pixel (row, column) under the viewport in place
FreshColor(row, column) ==
    LET xy == convert_row_and_column_to_x_and_y(info, F(row), F(column))
    IN  PixelColor(xy[1], xy[2], FDiv(info.delta_x, F(4)))

\* C18: whenever done is true, every cell of the buffer holds the colour
\* computed for its pixel under the viewport in place: no pixel of an earlier
\* viewport and no initial zero is left, whatever zooms, aborted passes,
\* screenshots and coordinate requests came before.
C18_DoneFrameIsFresh ==
    done =>
        /\ DOMAIN image_buffer = 0..(info.width * info.height - 1)
        /\ \A row \in 0..(info.height - 1), column \in 0..(info.width - 1) :
               image_buffer[row * info.width + column] = FreshColor(row, column)

\* A frame has been completed after a zoom-in and a zoom-out, in a window of
\* more than one pixel, and a key press has been polled since
C18_Witness ==
    /\ done
    /\ zoom_ins >= 1 /\ zoom_outs >= 1
    /\ info.width * info.height > 1
    /\ user_input.kind = "ShowCoordinates"

\* C19: each SaveScreenShot input that one poll returns causes exactly one
\* call of save_screenshot, and each ShowCoordinates input exactly one call
\* of print_coordinates, wherever it is polled: while such an input is in
\* user_input during a pass it has been served once, and when main reaches
\* the match at the top of its loop with it, which serves it, it has not been
\* served yet.
C19_EachInputServedOnce ==
    /\ calls <= 1
    /\ (InPass /\ user_input.kind \in CallKinds) => calls = 1
    /\ (pc = "top" /\ user_input.kind \in CallKinds) => calls = 0

=============================================================================
